---- MODULE Spec2Model ----
(***************************************************************************)
(* SubgradientSSVM (src/learners/subgradient_ssvm.py): the learner's      *)
(* fields, the outer loop of fit, the sequential (online / mini-batch)    *)
(* and parallel epoch runners and the subgradient step, as a state        *)
(* machine.  Numbers are exact rationals <<numerator, denominator>>.      *)
(***************************************************************************)
EXTENDS Integers, Sequences, FiniteSets, TLC

\* ------------------------------------------------------------------------
\* Bounds of the model
\* ------------------------------------------------------------------------
MaxIter == 2
MaxN == 2
MaxFits == 2
MaxT == 3
MaxLongN == 4

\* problem.size_psi, the dimension of w and grad_old
SizePsi == 2

\* ------------------------------------------------------------------------
\* Exact rational arithmetic (numpy float arithmetic, idealised)
\* ------------------------------------------------------------------------
Abs(i) == IF i < 0 THEN -i ELSE i

\* Euclid's algorithm. GCD, RAdd and RMul bind the values of their operands
\* once (p): TLC evaluates operator arguments by name inside ENABLED
RECURSIVE GCD(_, _)
GCD(a, b) ==
    CHOOSE r \in { IF p[2] = 0 THEN p[1] ELSE GCD(p[2], p[1] % p[2]) :
                      p \in { << a, b >> } } : TRUE

Norm(n, d) ==
    LET s == IF d < 0 THEN -1 ELSE 1
        g == GCD(Abs(n), Abs(d))
    IN  << (s * n) \div g, (s * d) \div g >>

R(i) == << i, 1 >>

\* sums and products cancel common factors before multiplying
RAdd(a, b) ==
    CHOOSE r \in { LET g == p[3]
                    IN  Norm(p[1][1] * (p[2][2] \div g) + p[2][1] * (p[1][2] \div g),
                             (p[1][2] \div g) * p[2][2]) :
                      p \in { << a, b, GCD(a[2], b[2]) >> } } : TRUE

RNeg(a) == << -a[1], a[2] >>
RSub(a, b) == RAdd(a, RNeg(b))

RMul(a, b) ==
    CHOOSE r \in { LET g1 == GCD(Abs(p[1][1]), p[2][2])
                        g2 == GCD(Abs(p[2][1]), p[1][2])
                    IN  IF p[1][1] = 0 \/ p[2][1] = 0 THEN << 0, 1 >>
                        ELSE << (p[1][1] \div g1) * (p[2][1] \div g2),
                                (p[1][2] \div g2) * (p[2][2] \div g1) >> :
                      p \in { << a, b >> } } : TRUE

RInv(a) == IF a[1] < 0 THEN << -a[2], -a[1] >> ELSE << a[2], a[1] >>
RDiv(a, b) == RMul(a, RInv(b))

RECURSIVE RPow(_, _)
RPow(a, k) == IF k = 0 THEN R(1) ELSE RMul(a, RPow(a, k - 1))

RECURSIVE ISqrtFrom(_, _)
ISqrtFrom(n, r) == IF (r + 1) * (r + 1) > n THEN r ELSE ISqrtFrom(n, r + 1)

\* np.sqrt of a non-negative value, rounded down to a whole number: the one
\* operation of the model that is not exact
RSqrt(a) == R(ISqrtFrom(a[1] \div a[2], 0))

\* np.zeros(size_psi), elementwise operations, np.dot, np.sum(w ** 2); the
\* elementwise operations bind the values of their operands once (p)
Zeros == [k \in 1..SizePsi |-> R(0)]
VecOf(iv) == [k \in 1..SizePsi |-> R(iv[k])]
VAdd(u, v) ==
    CHOOSE r \in { [k \in 1..SizePsi |-> RAdd(p[1][k], p[2][k])] :
                      p \in { << u, v >> } } : TRUE
VSub(u, v) ==
    CHOOSE r \in { [k \in 1..SizePsi |-> RSub(p[1][k], p[2][k])] :
                      p \in { << u, v >> } } : TRUE
VScale(c, v) ==
    CHOOSE r \in { [k \in 1..SizePsi |-> RMul(p[1], p[2][k])] :
                      p \in { << c, v >> } } : TRUE
VDivS(v, c) ==
    CHOOSE r \in { [k \in 1..SizePsi |-> RDiv(p[1][k], p[2])] :
                      p \in { << v, c >> } } : TRUE
VSquare(v) ==
    CHOOSE r \in { [k \in 1..SizePsi |-> RMul(p[k], p[k])] : p \in { v } } : TRUE

RECURSIVE VSumTo(_, _)
VSumTo(v, k) == IF k = 0 THEN R(0) ELSE RAdd(VSumTo(v, k - 1), v[k])

VSum(v) == VSumTo(v, SizePsi)
Dot(u, v) == VSum([k \in 1..SizePsi |-> RMul(u[k], v[k])])

CeilDiv(a, k) == (a + k - 1) \div k

\* sklearn.utils.gen_even_slices(n, n_packs): n_packs contiguous slices
\* [start, stop) of 0..n-1, the first n % n_packs one longer; empty ones skipped
RECURSIVE SlicesFrom(_, _, _, _)
SlicesFrom(n, n_packs, pack_num, start) ==
    IF pack_num >= n_packs THEN << >>
    ELSE LET this_n == (n \div n_packs) + (IF pack_num < n % n_packs THEN 1 ELSE 0)
         IN  IF this_n > 0
             THEN << [start |-> start, stop |-> start + this_n] >>
                  \o SlicesFrom(n, n_packs, pack_num + 1, start + this_n)
             ELSE SlicesFrom(n, n_packs, pack_num + 1, start)

gen_even_slices(n, n_packs) == SlicesFrom(n, n_packs, 0, 0)

\* ------------------------------------------------------------------------
\* State
\* ------------------------------------------------------------------------
VARIABLES
    \* constructor arguments (lines 79-93); batch_size << >> is None
    max_iter, n_jobs, batch_size, break_on_no_constraints, logger,
    C, learning_rate, momentum, decay_exponent, adagrad,
    cpus,                 \* cpu_count() of the machine
    \* learner state; w = << >> while the attribute is absent
    w, grad_old, t,
    objective_curve_,     \* << >> while absent, else << curve >>
    inference_calls,      \* problem.inference_calls
    \* the running fit call
    pc, n_samples, iteration, objective_curve, objective, positive_slacks,
    i,                    \* online mode: index of the next example
    slices, batch,        \* mini-batch / parallel: the slices, index of the next
    candidate_constraints,\* parallel: example -> << >> (in flight) or << result >>
    result,               \* how the last fit call ended
    \* history of the run
    fits, exit, interrupted_at, completed, primal, logged, entry, failure, epoch_t0, last_step

config == << max_iter, n_jobs, batch_size, break_on_no_constraints, logger,
             C, learning_rate, momentum, decay_exponent, adagrad, cpus >>
learner == << w, grad_old, t >>
epoch == << objective, positive_slacks, i, slices, batch, candidate_constraints >>
history == << fits, exit, interrupted_at, completed, primal, logged, entry, failure,
              epoch_t0, last_step >>
vars == << config, learner, objective_curve_, inference_calls, pc, n_samples,
           iteration, objective_curve, epoch, result, history >>

\* ------------------------------------------------------------------------
\* _solve_subgradient (lines 95-119)
\* ------------------------------------------------------------------------
\* the regulariser scaled by the constant 2 of lines 98-100, not by n_samples
GradFixedTwo(wv, dpsi, n) == VSub(dpsi, VDivS(wv, RMul(C, R(2))))

\* line 101
Grad(wv, dpsi, n) == VSub(dpsi, VDivS(wv, RMul(C, R(n))))

\* lines 112-116
EffectiveLr(tt) ==
    IF decay_exponent = 0 THEN learning_rate
    ELSE RDiv(learning_rate, RPow(R(tt + 1), decay_exponent))

\* the step counter left as it is
NextTForgotten(tt) == tt

\* line 119
NextT(tt) == tt + 1

\* lines 103-119: the learner state after one step from (wv, go, tt)
SolveSubgradient(wv, go, tt, dpsi, n) ==
    LET grad == Grad(wv, dpsi, n)
    IN  IF adagrad
        THEN LET acc == VAdd(go, VSquare(grad))
             IN  [w |-> VAdd(wv, [k \in 1..SizePsi |->
                             RDiv(RMul(learning_rate, grad[k]),
                                  RAdd(R(1), RSqrt(acc[k])))]),
                  grad_old |-> acc,
                  t |-> NextT(tt)]
        ELSE LET avg == VAdd(VScale(RSub(R(1), momentum), grad),
                             VScale(momentum, go))
             IN  [w |-> VAdd(wv, VScale(EffectiveLr(tt), avg)),
                  grad_old |-> avg,
                  t |-> NextT(tt)]

\* self._solve_subgradient(dpsi, n) as a state change
Step(dpsi, n) ==
    \E d \in { dpsi } :
       \E s \in { SolveSubgradient(w, grad_old, t, d, n) } :
          /\ w' = s.w
          /\ grad_old' = s.grad_old
          /\ t' = s.t
          /\ last_step' = << [w |-> w, dpsi |-> d, n |-> n] >>

\* ------------------------------------------------------------------------
\* The collaborators: what the oracle may answer, the hyper-parameters tried
\* ------------------------------------------------------------------------
\* find_constraint(problem, x, y, w) -> (y_hat, delta_psi, slack, loss)
OracleResults ==
    { [delta_psi |-> << 1, -1 >>, slack |-> 0],
      [delta_psi |-> << 0, 2 >>, slack |-> 1] }

\* batch_psi(X_b, Y_b) - batch_psi(X_b, Y_hat) and sum(batch_loss(Y_b, Y_hat))
BatchResults ==
    { [delta_psi |-> << 0, 0 >>, loss |-> 0],
      [delta_psi |-> << 2, -1 >>, loss |-> 1] }

HyperParameters ==
    { [C |-> R(1), learning_rate |-> << 1, 2 >>, momentum |-> R(0),
       decay_exponent |-> 0, adagrad |-> FALSE],
      [C |-> << 1, 2 >>, learning_rate |-> R(1), momentum |-> << 1, 2 >>,
       decay_exponent |-> 0, adagrad |-> FALSE],
      [C |-> R(1), learning_rate |-> R(1), momentum |-> R(0),
       decay_exponent |-> 1, adagrad |-> FALSE],
      [C |-> R(1), learning_rate |-> R(1), momentum |-> << 9, 10 >>,
       decay_exponent |-> 0, adagrad |-> TRUE] }

NJobs == { -1, 1, 2 }
BatchSizes == { << >>, << 1 >>, << 2 >> }
\* cpu_count() of the machines tried
CpuCounts == { 1, 2 }

\* ------------------------------------------------------------------------
\* __init__ (lines 79-93)
\* ------------------------------------------------------------------------
Init ==
    /\ max_iter \in 0..MaxIter
    /\ n_jobs \in NJobs
    /\ batch_size \in BatchSizes
    /\ break_on_no_constraints \in BOOLEAN
    /\ logger \in BOOLEAN
    /\ \E h \in HyperParameters :
          /\ C = h.C
          /\ learning_rate = h.learning_rate
          /\ momentum = h.momentum
          /\ decay_exponent = h.decay_exponent
          /\ adagrad = h.adagrad
    /\ cpus \in (IF n_jobs = -1 THEN CpuCounts ELSE {1})
    /\ w = << >>
    /\ grad_old = Zeros
    /\ t = 0
    /\ objective_curve_ = << >>
    /\ inference_calls = 0
    /\ pc = "idle"
    /\ n_samples \in 0..MaxN      \* len(X) of the training set the learner is fitted on
    /\ iteration = 0
    /\ objective_curve = << >>
    /\ objective = R(0)
    /\ positive_slacks = 0
    /\ i = 0
    /\ slices = << >>
    /\ batch = 0
    /\ candidate_constraints = << >>
    /\ result = "none"
    /\ fits = 0
    /\ exit = "none"
    /\ interrupted_at = "none"
    /\ completed = 0
    /\ primal = << >>
    /\ logged = << >>
    /\ entry = [w |-> << >>, grad_old |-> Zeros, t |-> 0, inference_calls |-> 0,
                objective_curve_ |-> << >>]
    /\ failure = << >>
    /\ epoch_t0 = 0
    /\ last_step = << >>

\* an exception leaves fit: the call is over, the learner keeps its fields
Raise(kind) ==
    /\ pc' = "idle"
    /\ result' = kind
    /\ failure' = << [kind |-> kind, at |-> pc, inference_calls |-> inference_calls, t |-> t,
                      w |-> w, grad_old |-> grad_old] >>

\* ------------------------------------------------------------------------
\* fit (lines 121-178)
\* ------------------------------------------------------------------------
\* w re-initialised by every fit call
InitialWReset == Zeros

\* line 138: getattr(self, "w", np.zeros(size_psi))
InitialW == IF w = << >> THEN Zeros ELSE w

\* the gradient steps of one full epoch over n examples (lines 194, 220, 229)
StepsPerEpoch(n) ==
    IF n_jobs = 1
    THEN IF batch_size \in { << >>, << 1 >> } THEN n ELSE CeilDiv(n, batch_size[1])
    ELSE CeilDiv(n, cpus)

\* lines 137-139: entry of fit(X, Y); a call is taken up only while the steps
\* it can apply keep t within MaxT
Fit ==
    /\ pc = "idle"
    /\ fits < MaxFits
    /\ t + max_iter * StepsPerEpoch(n_samples) <= MaxT
    /\ w' = InitialW
    /\ objective_curve' = << >>
    /\ iteration' = 0
    /\ pc' = "for"
    /\ result' = "running"
    /\ fits' = fits + 1
    /\ exit' = "none"
    /\ interrupted_at' = "none"
    /\ completed' = 0
    /\ primal' = << >>
    /\ logged' = << >>
    /\ entry' = [w |-> w, grad_old |-> grad_old, t |-> t,
                 inference_calls |-> inference_calls,
                 objective_curve_ |-> objective_curve_]
    /\ objective' = R(0)
    /\ positive_slacks' = 0
    /\ i' = 0
    /\ slices' = << >>
    /\ batch' = 0
    /\ candidate_constraints' = << >>
    /\ failure' = << >>
    /\ epoch_t0' = t
    /\ last_step' = << >>
    /\ UNCHANGED << config, grad_old, t, objective_curve_, inference_calls,
                    n_samples >>

\* the loop bound taken inclusively
InRangeInclusive(it) == it <= max_iter

\* line 142: iteration is in xrange(max_iter)
InRange(it) == it < max_iter

\* line 142: xrange(max_iter) is exhausted
ForExhausted ==
    /\ pc = "for"
    /\ ~InRange(iteration)
    /\ pc' = "after"
    /\ exit' = "exhausted"
    /\ UNCHANGED << config, learner, objective_curve_, inference_calls, n_samples,
                    iteration, objective_curve, epoch, result, fits,
                    interrupted_at, completed, primal, logged, entry, failure, epoch_t0,
                    last_step >>

\* lines 143-145 and 216-218, 229-230: an epoch of _sequential_learning begins
SequentialBegin ==
    /\ pc = "for"
    /\ InRange(iteration)
    /\ n_jobs = 1
    /\ objective' = R(0)
    /\ positive_slacks' = 0
    /\ epoch_t0' = t
    /\ candidate_constraints' = << >>
    /\ IF batch_size \in { << >>, << 1 >> }
       THEN /\ pc' = "online"
            /\ i' = 0
            /\ slices' = << >>
            /\ batch' = 0
       ELSE /\ pc' = "minibatch"
            /\ i' = 0
            /\ slices' = gen_even_slices(n_samples,
                                         CeilDiv(n_samples, batch_size[1]))
            /\ batch' = 1
    /\ UNCHANGED << config, learner, objective_curve_, inference_calls, n_samples,
                    iteration, objective_curve, result, fits, exit,
                    interrupted_at, completed, primal, logged, entry, failure, last_step >>


\* online learning that takes a gradient step only for an example with slack > 0
OnlineExampleSkipsZero ==
    /\ pc = "online"
    /\ i < n_samples
    /\ \E r \in OracleResults :
          /\ objective' = RAdd(objective, R(r.slack))
          /\ positive_slacks' = positive_slacks + (IF r.slack > 0 THEN 1 ELSE 0)
          /\ IF r.slack > 0
             THEN Step(VecOf(r.delta_psi), n_samples)
             ELSE UNCHANGED << learner, last_step >>
    /\ inference_calls' = inference_calls + 1
    /\ i' = i + 1
    /\ UNCHANGED << config, objective_curve_, pc, n_samples, iteration,
                    objective_curve, slices, batch, candidate_constraints, result,
                    fits, exit, interrupted_at, completed, primal, logged, entry, failure,
                    epoch_t0 >>

\* lines 220-226: one example of online learning
OnlineExample ==
    /\ pc = "online"
    /\ i < n_samples
    /\ \E r \in OracleResults :
          /\ objective' = RAdd(objective, R(r.slack))
          /\ positive_slacks' = positive_slacks + (IF r.slack > 0 THEN 1 ELSE 0)
          /\ Step(VecOf(r.delta_psi), n_samples)
    /\ inference_calls' = inference_calls + 1
    /\ i' = i + 1
    /\ UNCHANGED << config, objective_curve_, pc, n_samples, iteration,
                    objective_curve, slices, batch, candidate_constraints, result,
                    fits, exit, interrupted_at, completed, primal, logged, entry, failure,
                    epoch_t0 >>



\* mini-batch learning that counts a slice only when its violation is positive
MiniBatchCountsViolations ==
    /\ pc = "minibatch"
    /\ batch <= Len(slices)
    /\ \E r \in BatchResults :
          LET len_X_b == slices[batch].stop - slices[batch].start
              delta_psi == VecOf(r.delta_psi)
              violation == RSub(R(r.loss), Dot(w, delta_psi))
          IN  /\ objective' = RAdd(objective, violation)
              /\ positive_slacks' =
                    positive_slacks + (IF violation[1] > 0 THEN batch_size[1] ELSE 0)
              /\ Step(VDivS(delta_psi, R(len_X_b)), n_samples)
    /\ inference_calls' = inference_calls + 1
    /\ batch' = batch + 1
    /\ UNCHANGED << config, objective_curve_, pc, n_samples, iteration,
                    objective_curve, i, slices, candidate_constraints, result,
                    fits, exit, interrupted_at, completed, primal, logged, entry, failure,
                    epoch_t0 >>

\* mini-batch learning that counts the examples of the slice
MiniBatchCountsExamples ==
    /\ pc = "minibatch"
    /\ batch <= Len(slices)
    /\ \E r \in BatchResults :
          LET len_X_b == slices[batch].stop - slices[batch].start
              delta_psi == VecOf(r.delta_psi)
              violation == RSub(R(r.loss), Dot(w, delta_psi))
          IN  /\ objective' = RAdd(objective, violation)
              /\ positive_slacks' = positive_slacks + len_X_b
              /\ Step(VDivS(delta_psi, R(len_X_b)), n_samples)
    /\ inference_calls' = inference_calls + 1
    /\ batch' = batch + 1
    /\ UNCHANGED << config, objective_curve_, pc, n_samples, iteration,
                    objective_curve, i, slices, candidate_constraints, result,
                    fits, exit, interrupted_at, completed, primal, logged, entry, failure,
                    epoch_t0 >>

\* lines 231-243: one slice of mini-batch learning
MiniBatch ==
    /\ pc = "minibatch"
    /\ batch <= Len(slices)
    /\ \E r \in BatchResults :
          LET len_X_b == slices[batch].stop - slices[batch].start
              delta_psi == VecOf(r.delta_psi)
              violation == RSub(R(r.loss), Dot(w, delta_psi))
          IN  /\ objective' = RAdd(objective, violation)
              /\ positive_slacks' = positive_slacks + batch_size[1]
              /\ Step(VDivS(delta_psi, R(len_X_b)), n_samples)
    /\ inference_calls' = inference_calls + 1
    /\ batch' = batch + 1
    /\ UNCHANGED << config, objective_curve_, pc, n_samples, iteration,
                    objective_curve, i, slices, candidate_constraints, result,
                    fits, exit, interrupted_at, completed, primal, logged, entry, failure,
                    epoch_t0 >>

\* line 244: _sequential_learning returns (objective, positive_slacks)
SequentialReturn ==
    /\ \/ pc = "online" /\ i >= n_samples
       \/ pc = "minibatch" /\ batch > Len(slices)
    /\ pc' = "stats"
    /\ UNCHANGED << config, learner, objective_curve_, inference_calls, n_samples,
                    iteration, objective_curve, epoch, result, history >>

\* ------------------------------------------------------------------------
\* _parallel_learning (lines 180-213)
\* ------------------------------------------------------------------------
\* _parallel_learning without the batch_size test of lines 184-186
ParallelBeginNoCheck ==
    /\ pc = "for"
    /\ InRange(iteration)
    /\ n_jobs # 1
    /\ objective' = R(0)
    /\ positive_slacks' = 0
    /\ epoch_t0' = t
    /\ candidate_constraints' = << >>
    /\ i' = 0
    /\ IF n_jobs = -1
       THEN /\ slices' = gen_even_slices(n_samples, CeilDiv(n_samples, cpus))
            /\ batch' = 1
            /\ pc' = "parallel"
            /\ UNCHANGED << result, failure >>
       ELSE /\ Raise("AttributeError")
            /\ UNCHANGED << slices, batch >>
    /\ UNCHANGED << config, learner, objective_curve_, inference_calls, n_samples,
                    iteration, objective_curve, fits, exit, interrupted_at,
                    completed, primal, logged, entry, last_step >>

\* lines 146-147 and 181-195: an epoch of _parallel_learning begins
ParallelBegin ==
    /\ pc = "for"
    /\ InRange(iteration)
    /\ n_jobs # 1
    /\ objective' = R(0)
    /\ positive_slacks' = 0
    /\ epoch_t0' = t
    /\ candidate_constraints' = << >>
    /\ i' = 0
    /\ IF batch_size # << >>
       THEN /\ Raise("ValueError")
            /\ UNCHANGED << slices, batch >>
       ELSE IF n_jobs = -1
       THEN /\ slices' = gen_even_slices(n_samples, CeilDiv(n_samples, cpus))
            /\ batch' = 1
            /\ pc' = "parallel"
            /\ UNCHANGED << result, failure >>
       ELSE /\ Raise("AttributeError")          \* line 192: self.j_jobs
            /\ UNCHANGED << slices, batch >>
    /\ UNCHANGED << config, learner, objective_curve_, inference_calls, n_samples,
                    iteration, objective_curve, fits, exit, interrupted_at,
                    completed, primal, logged, entry, last_step >>

\* the tasks of every remaining example handed to Parallel at once
ParallelDispatchAll ==
    /\ pc = "parallel"
    /\ batch <= Len(slices)
    /\ candidate_constraints' =
          [e \in slices[batch].start .. (n_samples - 1) |-> << >>]
    /\ pc' = "join"
    /\ UNCHANGED << config, learner, objective_curve_, inference_calls, n_samples,
                    iteration, objective_curve, objective, positive_slacks, i,
                    slices, batch, result, history >>

\* lines 197-203: the slice's find_constraint tasks are handed to Parallel
ParallelDispatch ==
    /\ pc = "parallel"
    /\ batch <= Len(slices)
    /\ candidate_constraints' =
          [e \in slices[batch].start .. (slices[batch].stop - 1) |-> << >>]
    /\ pc' = "join"
    /\ UNCHANGED << config, learner, objective_curve_, inference_calls, n_samples,
                    iteration, objective_curve, objective, positive_slacks, i,
                    slices, batch, result, history >>


\* a worker that applies the gradient step of its own example when it returns
FindConstraintHogwild(e) ==
    /\ pc = "join"
    /\ e \in DOMAIN candidate_constraints
    /\ candidate_constraints[e] = << >>
    /\ \E r \in OracleResults :
          /\ candidate_constraints' =
                [candidate_constraints EXCEPT
                    ![e] = << [delta_psi |-> r.delta_psi, slack |-> r.slack, w |-> w] >>]
          /\ Step(VecOf(r.delta_psi), n_samples)
    /\ inference_calls' = inference_calls + 1
    /\ UNCHANGED << config, objective_curve_, pc, n_samples, iteration,
                    objective_curve, objective, positive_slacks, i, slices, batch,
                    result, fits, exit, interrupted_at, completed, primal, logged,
                    entry, failure, epoch_t0 >>

\* line 201-202: a worker runs find_constraint(problem, x, y, self.w) for example e
FindConstraint(e) ==
    /\ pc = "join"
    /\ e \in DOMAIN candidate_constraints
    /\ candidate_constraints[e] = << >>
    /\ \E r \in OracleResults :
          candidate_constraints' =
             [candidate_constraints EXCEPT
                 ![e] = << [delta_psi |-> r.delta_psi, slack |-> r.slack, w |-> w] >>]
    /\ inference_calls' = inference_calls + 1
    /\ UNCHANGED << config, learner, objective_curve_, pc, n_samples, iteration,
                    objective_curve, objective, positive_slacks, i, slices, batch,
                    result, history >>


\* the aggregation without the test slack > 0 of line 207
RECURSIVE AggregateAll(_, _, _)
AggregateAll(cc, lo, hi) ==
    IF lo >= hi
    THEN [objective |-> R(0), dpsi |-> Zeros, positive_slacks |-> 0]
    ELSE LET rest == AggregateAll(cc, lo, hi - 1)
             c == cc[hi - 1][1]
         IN  [objective |-> RAdd(rest.objective, R(c.slack)),
              dpsi |-> VAdd(rest.dpsi, VecOf(c.delta_psi)),
              positive_slacks |-> rest.positive_slacks + 1]

\* lines 204-211 over the examples lo..hi-1 of the slice, in order
RECURSIVE Aggregate(_, _, _)
Aggregate(cc, lo, hi) ==
    IF lo >= hi
    THEN [objective |-> R(0), dpsi |-> Zeros, positive_slacks |-> 0]
    ELSE LET rest == Aggregate(cc, lo, hi - 1)
             c == cc[hi - 1][1]
         IN  IF c.slack > 0
             THEN [objective |-> RAdd(rest.objective, R(c.slack)),
                   dpsi |-> VAdd(rest.dpsi, VecOf(c.delta_psi)),
                   positive_slacks |-> rest.positive_slacks + 1]
             ELSE rest

\* lines 204-212: all tasks of the slice are back; aggregate, one step
ParallelJoin ==
    /\ pc = "join"
    /\ \A e \in DOMAIN candidate_constraints : candidate_constraints[e] # << >>
    /\ LET a == Aggregate(candidate_constraints, slices[batch].start,
                          slices[batch].stop)
       IN  /\ objective' = RAdd(objective, a.objective)
           /\ positive_slacks' = positive_slacks + a.positive_slacks
           /\ Step(a.dpsi, n_samples)
    /\ batch' = batch + 1
    /\ candidate_constraints' = << >>
    /\ pc' = "parallel"
    /\ UNCHANGED << config, objective_curve_, inference_calls, n_samples,
                    iteration, objective_curve, i, slices, result, fits, exit,
                    interrupted_at, completed, primal, logged, entry, failure, epoch_t0 >>

\* line 213: _parallel_learning returns (objective, positive_slacks)
ParallelReturn ==
    /\ pc = "parallel"
    /\ batch > Len(slices)
    /\ pc' = "stats"
    /\ UNCHANGED << config, learner, objective_curve_, inference_calls, n_samples,
                    iteration, objective_curve, epoch, result, history >>

\* ------------------------------------------------------------------------
\* the rest of the loop body (lines 149-170), the handler and the return
\* ------------------------------------------------------------------------
\* lines 150-151
PrimalObjective == RAdd(RMul(C, objective), RDiv(VSum(VSquare(w)), R(2)))

\* the objective appended before the positive_slacks test, not after it
StatisticsAppendFirst ==
    /\ pc = "stats"
    /\ objective' = PrimalObjective
    /\ primal' = Append(primal, PrimalObjective)
    /\ objective_curve' = Append(objective_curve, PrimalObjective)
    /\ IF positive_slacks = 0 /\ break_on_no_constraints
       THEN /\ pc' = "after"
            /\ exit' = "break"
       ELSE /\ pc' = "loss"
            /\ UNCHANGED exit
    /\ UNCHANGED << config, learner, objective_curve_, inference_calls, n_samples,
                    iteration, positive_slacks, i, slices, batch,
                    candidate_constraints, result, fits, interrupted_at,
                    completed, logged, entry, failure, epoch_t0, last_step >>


\* the logger called for the breaking iteration too, before the break
StatisticsLogsBreak ==
    /\ pc = "stats"
    /\ objective' = PrimalObjective
    /\ primal' = Append(primal, PrimalObjective)
    /\ IF positive_slacks = 0 /\ break_on_no_constraints
       THEN /\ pc' = "after"
            /\ exit' = "break"
            /\ logged' = IF logger THEN Append(logged, iteration) ELSE logged
            /\ UNCHANGED objective_curve
       ELSE /\ objective_curve' = Append(objective_curve, PrimalObjective)
            /\ pc' = "loss"
            /\ UNCHANGED << exit, logged >>
    /\ UNCHANGED << config, learner, objective_curve_, inference_calls, n_samples,
                    iteration, positive_slacks, i, slices, batch,
                    candidate_constraints, result, fits, interrupted_at,
                    completed, entry, failure, epoch_t0, last_step >>

\* lines 150-163
Statistics ==
    /\ pc = "stats"
    /\ objective' = PrimalObjective
    /\ primal' = Append(primal, PrimalObjective)
    /\ IF positive_slacks = 0 /\ break_on_no_constraints
       THEN /\ pc' = "after"
            /\ exit' = "break"
            /\ UNCHANGED objective_curve
       ELSE /\ objective_curve' = Append(objective_curve, PrimalObjective)
            /\ pc' = "loss"
            /\ UNCHANGED exit
    /\ UNCHANGED << config, learner, objective_curve_, inference_calls, n_samples,
                    iteration, positive_slacks, i, slices, batch,
                    candidate_constraints, result, fits, interrupted_at,
                    completed, logged, entry, failure, epoch_t0, last_step >>

\* line 168: self._compute_training_loss(X, Y, iteration); observability only
ComputeTrainingLoss ==
    /\ pc = "loss"
    /\ pc' = "logger"
    /\ UNCHANGED << config, learner, objective_curve_, inference_calls, n_samples,
                    iteration, objective_curve, epoch, result, history >>


\* a loop that takes the same iteration again
LoggerSameIteration ==
    /\ pc = "logger"
    /\ logged' = IF logger THEN Append(logged, iteration) ELSE logged
    /\ iteration' = iteration
    /\ completed' = completed + 1
    /\ pc' = "for"
    /\ UNCHANGED << config, learner, objective_curve_, inference_calls, n_samples,
                    objective_curve, epoch, result, fits, exit, interrupted_at,
                    primal, entry, failure, epoch_t0, last_step >>

\* lines 169-170, then the loop takes the next iteration
Logger ==
    /\ pc = "logger"
    /\ logged' = IF logger THEN Append(logged, iteration) ELSE logged
    /\ iteration' = iteration + 1
    /\ completed' = completed + 1
    /\ pc' = "for"
    /\ UNCHANGED << config, learner, objective_curve_, inference_calls, n_samples,
                    objective_curve, epoch, result, fits, exit, interrupted_at,
                    primal, entry, failure, epoch_t0, last_step >>

InTry == { "for", "online", "minibatch", "parallel", "join", "stats", "loss",
           "logger" }

\* KeyboardInterrupt with no handler around the loop: it reaches the caller
InterruptUncaught ==
    /\ pc \in InTry
    /\ Raise("KeyboardInterrupt")
    /\ exit' = "interrupt"
    /\ interrupted_at' = pc
    /\ candidate_constraints' = << >>
    /\ UNCHANGED << config, learner, objective_curve_, inference_calls, n_samples,
                    iteration, objective_curve, objective, positive_slacks, i,
                    slices, batch, fits, completed, primal, logged, entry,
                    epoch_t0, last_step >>


\* a handler that sets the step counter back to the start of the epoch
InterruptRollsBack ==
    /\ pc \in InTry
    /\ pc' = "after"
    /\ exit' = "interrupt"
    /\ interrupted_at' = pc
    /\ candidate_constraints' = << >>
    /\ t' = epoch_t0
    /\ UNCHANGED << config, w, grad_old, objective_curve_, inference_calls, n_samples,
                    iteration, objective_curve, objective, positive_slacks, i,
                    slices, batch, result, fits, completed, primal, logged, entry,
                    failure, epoch_t0, last_step >>

\* lines 172-173: KeyboardInterrupt anywhere inside the try block
Interrupt ==
    /\ pc \in InTry
    /\ pc' = "after"
    /\ exit' = "interrupt"
    /\ interrupted_at' = pc
    /\ candidate_constraints' = << >>
    /\ UNCHANGED << config, learner, objective_curve_, inference_calls, n_samples,
                    iteration, objective_curve, objective, positive_slacks, i,
                    slices, batch, result, fits, completed, primal, logged, entry,
                    failure, epoch_t0, last_step >>

\* the oracle's error caught by the handler of lines 172-173 like an interrupt
OracleFailureSwallowed ==
    /\ \/ pc = "online" /\ i < n_samples
       \/ pc = "minibatch" /\ batch <= Len(slices)
       \/ pc = "join" /\ \E e \in DOMAIN candidate_constraints :
                            candidate_constraints[e] = << >>
       \/ pc = "loss"
    /\ pc' = "after"
    /\ failure' = << [kind |-> "OracleFailure", at |-> pc,
                      inference_calls |-> inference_calls, t |-> t,
                      w |-> w, grad_old |-> grad_old] >>
    /\ candidate_constraints' = << >>
    /\ UNCHANGED << config, learner, objective_curve_, inference_calls, n_samples,
                    iteration, objective_curve, objective, positive_slacks, i,
                    slices, batch, result, fits, exit, interrupted_at, completed,
                    primal, logged, entry, epoch_t0, last_step >>

\* the oracle or the problem raises where it is called: lines 222, 234-238,
\* 201-202 (re-raised by Parallel), 168; no except clause matches
OracleFailure ==
    /\ \/ pc = "online" /\ i < n_samples
       \/ pc = "minibatch" /\ batch <= Len(slices)
       \/ pc = "join" /\ \E e \in DOMAIN candidate_constraints :
                            candidate_constraints[e] = << >>
       \/ pc = "loss"
    /\ Raise("OracleFailure")
    /\ candidate_constraints' = << >>
    /\ UNCHANGED << config, learner, objective_curve_, inference_calls, n_samples,
                    iteration, objective_curve, objective, positive_slacks, i,
                    slices, batch, fits, exit, interrupted_at, completed, primal,
                    logged, entry, epoch_t0, last_step >>


\* a return that appends the call's objectives to the curve already exposed
FitReturnAppends ==
    /\ pc = "after"
    /\ objective_curve_' =
          << (IF objective_curve_ = << >> THEN << >> ELSE objective_curve_[1])
                \o objective_curve >>
    /\ result' = "returned"
    /\ pc' = "idle"
    /\ UNCHANGED << config, learner, inference_calls, n_samples, iteration,
                    objective_curve, epoch, fits, exit, interrupted_at, completed,
                    primal, logged, entry, failure, epoch_t0, last_step >>

\* lines 174-178
FitReturn ==
    /\ pc = "after"
    /\ objective_curve_' = << objective_curve >>
    /\ result' = "returned"
    /\ pc' = "idle"
    /\ UNCHANGED << config, learner, inference_calls, n_samples, iteration,
                    objective_curve, epoch, fits, exit, interrupted_at, completed,
                    primal, logged, entry, failure, epoch_t0, last_step >>

Next ==
    \/ Fit
    \/ ForExhausted
    \/ SequentialBegin
    \/ OnlineExample
    \/ MiniBatch
    \/ SequentialReturn
    \/ ParallelBegin
    \/ ParallelDispatch
    \/ \E e \in DOMAIN candidate_constraints : FindConstraint(e)
    \/ ParallelJoin
    \/ ParallelReturn
    \/ Statistics
    \/ ComputeTrainingLoss
    \/ Logger
    \/ Interrupt
    \/ OracleFailure
    \/ FitReturn

Spec == Init /\ [][Next]_vars

\* the steps the running fit call takes by itself: everything but the caller's
\* next call, an interrupt and a failure of the oracle
FitProgress ==
    \/ ForExhausted
    \/ SequentialBegin
    \/ OnlineExample
    \/ MiniBatch
    \/ SequentialReturn
    \/ ParallelBegin
    \/ ParallelDispatch
    \/ \E e \in DOMAIN candidate_constraints : FindConstraint(e)
    \/ ParallelJoin
    \/ ParallelReturn
    \/ Statistics
    \/ ComputeTrainingLoss
    \/ Logger
    \/ FitReturn

\* the learners in plain mode (no momentum, no decay, no adagrad); the
\* hyper-parameters change the numbers in w, not the course of fit
FairInit == Init /\ ~adagrad /\ momentum = R(0) /\ decay_exponent = 0

\* a fit call that has been entered keeps running: the interpreter executes
\* the next statement, every oracle call returns and Parallel hands back the
\* results of its tasks
FairSpec == FairInit /\ [][Next]_vars /\ WF_vars(FitProgress)

\* ------------------------------------------------------------------------
\* The sequential learner (n_jobs = 1) on longer training sets, so that a
\* mini-batch epoch has several slices; momentum mode only
\* ------------------------------------------------------------------------
\* __init__ (lines 79-93) with n_jobs = 1 and adagrad = False
SequentialInit ==
    /\ max_iter \in 0..MaxIter
    /\ n_jobs = 1
    /\ batch_size \in BatchSizes
    /\ break_on_no_constraints \in BOOLEAN
    /\ logger \in BOOLEAN
    /\ \E h \in { g \in HyperParameters : ~g.adagrad } :
          /\ C = h.C
          /\ learning_rate = h.learning_rate
          /\ momentum = h.momentum
          /\ decay_exponent = h.decay_exponent
          /\ adagrad = h.adagrad
    /\ cpus = 1
    /\ w = << >>
    /\ grad_old = Zeros
    /\ t = 0
    /\ objective_curve_ = << >>
    /\ inference_calls = 0
    /\ pc = "idle"
    /\ n_samples \in 0..MaxLongN
    /\ iteration = 0
    /\ objective_curve = << >>
    /\ objective = R(0)
    /\ positive_slacks = 0
    /\ i = 0
    /\ slices = << >>
    /\ batch = 0
    /\ candidate_constraints = << >>
    /\ result = "none"
    /\ fits = 0
    /\ exit = "none"
    /\ interrupted_at = "none"
    /\ completed = 0
    /\ primal = << >>
    /\ logged = << >>
    /\ entry = [w |-> << >>, grad_old |-> Zeros, t |-> 0, inference_calls |-> 0,
                objective_curve_ |-> << >>]
    /\ failure = << >>
    /\ epoch_t0 = 0
    /\ last_step = << >>

\* the steps of fit that a learner with n_jobs = 1 can take
SequentialNext ==
    \/ Fit
    \/ ForExhausted
    \/ SequentialBegin
    \/ OnlineExample
    \/ MiniBatch
    \/ SequentialReturn
    \/ Statistics
    \/ ComputeTrainingLoss
    \/ Logger
    \/ Interrupt
    \/ OracleFailure
    \/ FitReturn

SequentialSpec == SequentialInit /\ [][SequentialNext]_vars

\* ------------------------------------------------------------------------
\* Properties
\* ------------------------------------------------------------------------
Returned == pc = "idle" /\ fits > 0
AfterAppend == exit = "interrupt" /\ interrupted_at \in { "loss", "logger" }

\* C1 (as claimed): when the loop is left by the no-constraints break, the
\* objective of the breaking epoch is the last entry of the objective curve,
\* which then has one entry per epoch run.
C1_BreakRecordsObjective ==
    (pc = "after" /\ exit = "break") =>
        /\ Len(objective_curve) = iteration + 1
        /\ objective_curve[Len(objective_curve)] = objective

\* C2 (as claimed): after an interrupt during iteration i the objective curve
\* has exactly i entries, wherever in the iteration the interrupt came.
C2_InterruptDropsIteration ==
    (pc = "after" /\ exit = "interrupt") => Len(objective_curve) = iteration

\* C2 (amended): an interrupted fit returns normally; the curve holds the
\* objectives of the i earlier iterations, and that of iteration i as well when
\* the interrupt came after the append, in the loss computation or the logger.
C2_InterruptKeepsAppended ==
    /\ (pc = "after" /\ exit = "interrupt") =>
          /\ Len(objective_curve) = iteration + (IF AfterAppend THEN 1 ELSE 0)
          /\ Len(objective_curve) <= Len(primal)
          /\ objective_curve = SubSeq(primal, 1, Len(objective_curve))
    /\ (pc = "idle" /\ exit = "interrupt") =>
          /\ result = "returned"
          /\ objective_curve_ = << objective_curve >>

C2_Witness ==
    /\ pc = "idle"
    /\ result = "returned"
    /\ exit = "interrupt"
    /\ interrupted_at = "logger"
    /\ iteration = 1
    /\ Len(objective_curve) = 2

C4_NonPositiveMaxIterRejected ==
    (max_iter <= 0 /\ Returned) => result # "returned"

\* C4 (amended): a fit call with max_iter <= 0 runs no epoch, makes no oracle
\* call, applies no step and returns normally with an empty objective curve.
C4_NonPositiveMaxIterNoOp ==
    (max_iter <= 0) =>
        /\ inference_calls = 0
        /\ t = 0
        /\ pc \in { "idle", "for", "after" }
        /\ Returned => (result = "returned" /\ objective_curve_ = << << >> >>)

C4_Witness ==
    /\ max_iter = 0
    /\ n_samples = 2
    /\ Returned
    /\ result = "returned"
    /\ exit = "exhausted"
    /\ objective_curve_ = << << >> >>

C6_StepCounter ==
    [][ /\ t' >= t
        /\ (w' # w \/ grad_old' # grad_old \/ last_step' # last_step) =>
              (pc = "idle" \/ t' = t + 1)
        /\ (t' # t) =>
              (t' = t + 1 /\ pc \in { "online", "minibatch", "join" })
        /\ (pc # "stats" /\ pc' = "stats") =>
              t' = epoch_t0' +
                   (IF n_jobs = 1
                    THEN IF batch_size \in { << >>, << 1 >> }
                         THEN n_samples
                         ELSE CeilDiv(n_samples, batch_size[1])
                    ELSE CeilDiv(n_samples, cpus)) ]_vars

C6_Witness ==
    /\ pc = "stats"
    /\ fits = 2
    /\ n_jobs = -1
    /\ cpus = 2
    /\ n_samples = 2
    /\ entry.t > 0
    /\ t = epoch_t0 + 1

\* C7 (as claimed): with an explicit worker count n_jobs > 1 and no batch_size
\* the epoch runs in parallel mode and fit does not fail on it.
C7_ExplicitWorkerCount ==
    (n_jobs > 1 /\ batch_size = << >>) => result # "AttributeError"

\* C8: an error raised by the oracle or the problem ends the fit call with that
\* error, and from then on no oracle call is made and no step applied.
C8_OracleFailurePropagates ==
    (failure # << >> /\ failure[1].kind = "OracleFailure") =>
        /\ pc = "idle"
        /\ result = "OracleFailure"
        /\ inference_calls = failure[1].inference_calls
        /\ t = failure[1].t
        /\ w = failure[1].w
        /\ grad_old = failure[1].grad_old

C8_Witness ==
    /\ result = "OracleFailure"
    /\ failure # << >>
    /\ failure[1].at = "online"
    /\ iteration = 1
    /\ t = 2
    /\ inference_calls = 2

\* C9: a fit call sets w to zeros only when w is absent, which is so exactly
\* before the first call; otherwise it starts from the w, grad_old and t the
\* previous call left, and nothing changes them between two calls.
C9_Resumable ==
    [][ /\ (pc = "idle") =>
              /\ t' = t
              /\ grad_old' = grad_old
              /\ w' = (IF fits = 0 THEN Zeros ELSE w)
        /\ (fits = 0) <=> (w = << >>) ]_vars

C9_Witness ==
    /\ fits = 2
    /\ pc = "for"
    /\ iteration = 0
    /\ t > 0
    /\ w # Zeros
    /\ w = entry.w
    /\ grad_old = entry.grad_old

\* C10: with momentum 0, decay_exponent 0 and adagrad off, the last gradient
\* step, taken from w_old with dpsi and n, left
\* w = w_old + learning_rate * (dpsi - w_old / (C * n)); in online mode n is
\* the number of examples and the steps follow the examples in order.
C10_PlainStep ==
    (momentum = R(0) /\ decay_exponent = 0 /\ ~adagrad /\ last_step # << >>) =>
        LET w_old == last_step[1].w
            dpsi == last_step[1].dpsi
            n == last_step[1].n
        IN  /\ w = [k \in 1..SizePsi |->
                      RAdd(w_old[k],
                           RMul(learning_rate,
                                RSub(dpsi[k], RDiv(w_old[k], RMul(C, R(n))))))]
            /\ n = n_samples
            /\ (pc = "online") => (i = t - epoch_t0)

C10_Witness ==
    /\ momentum = R(0)
    /\ decay_exponent = 0
    /\ pc = "online"
    /\ n_samples = 2
    /\ i = 2
    /\ last_step # << >>
    /\ last_step[1].w # Zeros
    /\ w # last_step[1].w

\* C11: in a parallel epoch the slices are taken strictly in turn. Oracle calls
\* are out only between the dispatch and the fan-in of the current slice and
\* only for its examples; by then every call of the earlier slices has
\* returned (the calls made so far are n_samples per completed epoch, the
\* examples before the current slice, and the returned ones of this slice) and
\* one gradient step has been applied for each earlier slice.
C11_SlicesInTurn ==
    /\ (candidate_constraints # << >>) => (pc = "join")
    /\ (pc \in { "parallel", "join" }) =>
          LET before == IF batch <= Len(slices) THEN slices[batch].start
                        ELSE n_samples
              back == { e \in DOMAIN candidate_constraints :
                          candidate_constraints[e] # << >> }
          IN  /\ t = epoch_t0 + (batch - 1)
              /\ inference_calls =
                    entry.inference_calls + iteration * n_samples + before
                       + Cardinality(back)
              /\ (pc = "join") =>
                    /\ batch <= Len(slices)
                    /\ DOMAIN candidate_constraints =
                          slices[batch].start .. (slices[batch].stop - 1)
              /\ \A b \in 1..Len(slices) :
                    /\ slices[b].start = IF b = 1 THEN 0 ELSE slices[b - 1].stop
                    /\ slices[b].stop > slices[b].start
              /\ (slices # << >>) => (slices[Len(slices)].stop = n_samples)

C11_Witness ==
    /\ pc = "join"
    /\ Len(slices) = 2
    /\ batch = 2
    /\ t = epoch_t0 + 1
    /\ DOMAIN candidate_constraints = { 1 }
    /\ candidate_constraints[1] # << >>
    /\ inference_calls = 2

\* C12: in a parallel epoch w, grad_old and t do not change while an oracle
\* call of the slice is still out, whatever the order in which the workers
\* return; every call of the slice that is back has read the w the learner
\* still holds, which is the w after the steps of the earlier slices; and w,
\* grad_old and t change in such an epoch only in the step after the fan-in,
\* which ends the slice.
C12_NoWriteInFlight ==
    [][ /\ \A e \in DOMAIN candidate_constraints :
              (candidate_constraints[e] # << >>) =>
                 (candidate_constraints[e][1].w = w /\ t = epoch_t0 + (batch - 1))
        /\ (\E e \in DOMAIN candidate_constraints : candidate_constraints[e] = << >>)
              => (learner' = learner)
        /\ (pc \in { "parallel", "join" } /\ learner' # learner) =>
              /\ pc = "join"
              /\ \A e \in DOMAIN candidate_constraints :
                    candidate_constraints[e] # << >>
              /\ pc' = "parallel"
              /\ batch' = batch + 1
              /\ candidate_constraints' = << >> ]_vars

C12_Witness ==
    /\ pc = "join"
    /\ cpus = 2
    /\ iteration = 1
    /\ w # Zeros
    /\ DOMAIN candidate_constraints = { 0, 1 }
    /\ candidate_constraints[0] = << >>
    /\ candidate_constraints[1] # << >>
    /\ candidate_constraints[1][1].w = w

\* C13: in online mode the examples are taken one by one in order, the epoch
\* starting at example 0 with objective and positive_slacks 0. The call for
\* example i (the (i+1)-th of the epoch) is made when exactly i steps have been
\* applied in the epoch, and the step that follows it starts from the w the
\* call was given, takes the delta_psi of the oracle's answer with n the number
\* of examples, and is taken whatever the slack; positive_slacks grows by one
\* exactly when the slack of the answer is > 0.
C13_OnlineOrder ==
    [][ /\ (pc = "online") =>
              /\ n_jobs = 1
              /\ batch_size \in { << >>, << 1 >> }
              /\ i = t - epoch_t0
              /\ i <= n_samples
              /\ positive_slacks <= i
              /\ (i = 0) => (positive_slacks = 0 /\ objective = R(0))
        /\ (pc = "online" /\ pc' = "online" /\ i' # i) =>
              LET slack == RSub(objective', objective)
              IN  /\ i' = i + 1
                  /\ inference_calls' = inference_calls + 1
                  /\ t' = t + 1
                  /\ last_step'[1].w = w
                  /\ last_step'[1].n = n_samples
                  /\ \E r \in OracleResults :
                        /\ slack = R(r.slack)
                        /\ last_step'[1].dpsi = VecOf(r.delta_psi)
                  /\ positive_slacks' =
                        positive_slacks + (IF slack[1] > 0 THEN 1 ELSE 0)
                  /\ w' = SolveSubgradient(w, grad_old, t, last_step'[1].dpsi,
                                           n_samples).w ]_vars

C13_Witness ==
    /\ pc = "online"
    /\ n_samples = 2
    /\ i = 2
    /\ t = epoch_t0 + 2
    /\ positive_slacks = 1
    /\ objective = R(1)
    /\ last_step # << >>
    /\ last_step[1].dpsi = VecOf(<< 1, -1 >>)
    /\ last_step[1].w # Zeros

\* C14: in sequential mini-batch mode with batch size k > 1 an epoch over N
\* examples works through exactly ceil(N / k) slices that follow one another
\* from example 0 to example N, one oracle call and one gradient step for
\* each, and every slice adds k to positive_slacks whatever its violation:
\* the epoch returns positive_slacks = k * ceil(N / k).
C14_MiniBatchCount ==
    (pc \in { "minibatch", "stats", "loss", "logger" } /\ n_jobs = 1
       /\ batch_size \notin { << >>, << 1 >> }) =>
        LET k == batch_size[1]
            done == batch - 1
        IN  /\ k > 1
            /\ Len(slices) = CeilDiv(n_samples, k)
            /\ \A b \in 1..Len(slices) :
                  /\ slices[b].start = IF b = 1 THEN 0 ELSE slices[b - 1].stop
                  /\ slices[b].stop > slices[b].start
                  /\ slices[b].stop - slices[b].start <= k
            /\ (slices # << >>) => (slices[Len(slices)].stop = n_samples)
            /\ done <= Len(slices)
            /\ positive_slacks = k * done
            /\ t = epoch_t0 + done
            /\ (pc # "minibatch") =>
                  /\ done = CeilDiv(n_samples, k)
                  /\ positive_slacks = k * CeilDiv(n_samples, k)

C14_Witness ==
    /\ pc = "stats"
    /\ n_jobs = 1
    /\ batch_size = << 2 >>
    /\ n_samples = 4
    /\ Len(slices) = 2
    /\ positive_slacks = 4
    /\ objective[1] < 0

\* the sums of slack and of delta_psi over the results of the examples in S
RECURSIVE SumOver(_, _)
SumOver(cc, S) ==
    IF S = { } THEN [slack |-> R(0), delta_psi |-> Zeros]
    ELSE LET e == CHOOSE x \in S : TRUE
             rest == SumOver(cc, S \ { e })
         IN  [slack |-> RAdd(rest.slack, R(cc[e][1].slack)),
              delta_psi |-> VAdd(rest.delta_psi, VecOf(cc[e][1].delta_psi))]

\* C15: at the fan-in of a slice of a parallel epoch, the examples with
\* slack > 0, and only they, add their slack to the objective, their delta_psi
\* to the slice's dpsi and one each to positive_slacks; then exactly one
\* gradient step is taken, from the w the slice's calls read, with that dpsi
\* and with n the size of the whole training set, and with dpsi = 0 when no
\* example of the slice has positive slack.
C15_PositiveOnly ==
    [][ (pc = "join" /\ pc' = "parallel") =>
          LET positive == { e \in DOMAIN candidate_constraints :
                              candidate_constraints[e][1].slack > 0 }
              sum == SumOver(candidate_constraints, positive)
          IN  /\ positive_slacks' = positive_slacks + Cardinality(positive)
              /\ objective' = RAdd(objective, sum.slack)
              /\ t' = t + 1
              /\ last_step' = << [w |-> w, dpsi |-> sum.delta_psi, n |-> n_samples] >>
              /\ (positive = { }) => (last_step'[1].dpsi = Zeros)
              /\ w' = SolveSubgradient(w, grad_old, t, sum.delta_psi, n_samples).w
              /\ grad_old' = SolveSubgradient(w, grad_old, t, sum.delta_psi,
                                              n_samples).grad_old ]_vars

\* a slice of two examples, one of them with slack 0, has been joined: one
\* step, one example counted, the delta_psi of the other left out
C15_Witness ==
    /\ pc = "parallel"
    /\ cpus = 2
    /\ n_samples = 2
    /\ batch = 2
    /\ positive_slacks = 1
    /\ objective = R(1)
    /\ t = epoch_t0 + 1
    /\ last_step # << >>
    /\ last_step[1].dpsi = VecOf(<< 0, 2 >>)
    /\ last_step[1].n = 2

Ended ==
    \/ /\ result = "returned"
       /\ failure = << >>
       /\ \/ exit = "break" /\ break_on_no_constraints /\ positive_slacks = 0
          \/ exit = "interrupt"
          \/ exit = "exhausted" /\ iteration = max_iter /\ completed = max_iter
    \/ /\ result \in { "ValueError", "AttributeError", "OracleFailure" }
       /\ exit = "none"
       /\ failure # << >>
       /\ (result = "ValueError") => (n_jobs # 1 /\ batch_size # << >>)
       /\ (result = "AttributeError") => (n_jobs \notin { 1, -1 })

C17_LoggedEveryIteration ==
    (logger /\ pc = "idle" /\ result = "returned" /\ exit # "interrupt") =>
        logged = [j \in 1..Len(primal) |-> j - 1]

\* C17 (amended): the logger is called at the end of an iteration, after the
\* objective was appended, so once for every iteration that did not end in
\* the no-constraints break and never for the breaking one: the indices
\* logged so far are 0, 1, ..., iteration - 1 in order, one for each objective
\* in the curve once the iteration is over, and a call that returned without
\* interrupt has logged every iteration it ran but the breaking one. Without a
\* logger nothing is logged.
C17_LoggedButBreak ==
    /\ logged = [j \in 1..Len(logged) |-> j - 1]
    /\ ~logger => (logged = << >>)
    /\ logger =>
          /\ Len(logged) = iteration
          /\ (pc = "for" \/ exit \in { "break", "exhausted" }) =>
                (Len(logged) = Len(objective_curve))
          /\ (pc = "idle" /\ result = "returned" /\ exit # "interrupt") =>
                (Len(logged) = Len(primal) - (IF exit = "break" THEN 1 ELSE 0))

C17_Witness ==
    /\ logger
    /\ pc = "idle"
    /\ result = "returned"
    /\ exit = "break"
    /\ Len(primal) = 2
    /\ logged = << 0 >>

StepsInEpoch ==
    IF n_jobs = 1 /\ batch_size \in { << >>, << 1 >> } THEN i
    ELSE IF batch = 0 THEN 0 ELSE batch - 1

\* C19: an interrupt in the middle of an epoch rolls nothing back. The
\* interrupt and the return that follows leave w, grad_old and t as they are,
\* so after the call t is its value at the start of the interrupted epoch plus
\* the steps applied in it before the interrupt, and w is the result of the
\* last of them; the objective of that epoch is in no curve: the curve has one
\* entry for each earlier iteration of the call.
C19_NoRollback ==
    /\ [](( /\ exit = "interrupt"
            /\ interrupted_at \in { "online", "minibatch", "parallel", "join" }) =>
             /\ t = epoch_t0 + StepsInEpoch
             /\ (StepsInEpoch > 0) =>
                   /\ last_step # << >>
                   /\ (momentum = R(0) /\ ~adagrad) =>
                         (w = SolveSubgradient(last_step[1].w, grad_old, t - 1,
                                               last_step[1].dpsi, last_step[1].n).w)
             /\ Len(objective_curve) = iteration
             /\ Len(primal) = iteration
             /\ (pc = "idle") =>
                   (result = "returned" /\ objective_curve_ = << objective_curve >>))
    /\ [][(exit' = "interrupt") => (learner' = learner)]_vars

C19_Witness ==
    /\ pc = "idle"
    /\ result = "returned"
    /\ exit = "interrupt"
    /\ interrupted_at = "online"
    /\ n_samples = 2
    /\ i = 1
    /\ t = entry.t + 1
    /\ w # Zeros
    /\ w # entry.w
    /\ objective_curve_ = << << >> >>

\* C20: objective_curve_ is written only by the statement after the loop,
\* reached when the loop ends, breaks or is interrupted, and it is then the
\* list of this call alone (objectives of this call, in order), not the
\* earlier curve extended. A call aborted by an error of the oracle or of the
\* configuration leaves objective_curve_ as it was when the call began
\* (absent, or the curve of an earlier call), whatever the call had already
\* recorded, while w, grad_old and t stay as the steps applied before the
\* error left them.
C20_CurveOnlyOnReturn ==
    /\ []( /\ (pc = "idle" /\ result \in { "ValueError", "AttributeError",
                                           "OracleFailure" }) =>
                /\ objective_curve_ = entry.objective_curve_
                /\ failure # << >>
                /\ w = failure[1].w
                /\ grad_old = failure[1].grad_old
                /\ t = failure[1].t
                /\ t >= entry.t
                /\ (t > entry.t) => (w # << >> /\ last_step # << >>)
           /\ (pc = "idle" /\ result = "returned") =>
                /\ objective_curve_ = << objective_curve >>
                /\ Len(objective_curve) <= max_iter
                /\ \A j \in 1..Len(objective_curve) : objective_curve[j] = primal[j] )
    /\ [][ (objective_curve_' # objective_curve_) =>
              /\ pc = "after"
              /\ exit \in { "exhausted", "break", "interrupt" }
              /\ result' = "returned"
              /\ objective_curve_' = << objective_curve >> ]_vars

\* a second call fails in its second iteration: the curve is still the one the
\* first call returned, and the objective this call recorded is lost
C20_Witness ==
    /\ fits = 2
    /\ pc = "idle"
    /\ result = "OracleFailure"
    /\ entry.objective_curve_ # << >>
    /\ Len(entry.objective_curve_[1]) = 1
    /\ objective_curve_ = entry.objective_curve_
    /\ Len(objective_curve) = 1
    /\ objective_curve # objective_curve_[1]
    /\ t > entry.t

====
